---- MODULE Spec2Model ----
(***************************************************************************)
(* Model of deployment-scripts/generate_inventory.py: the one-shot         *)
(* pipeline main() = load_terraform_outputs -> generate_inventory ->       *)
(* (validate_inventory) -> save (yaml via save_inventory, json inline).    *)
(*                                                                         *)
(* JSON values are tagged records: [t |-> "null"], [t |-> "bool", v],      *)
(* [t |-> "num", v], [t |-> "str", v |-> <<chars>>], [t |-> "list",        *)
(* v |-> <<values>>], [t |-> "map", v |-> <<[k |-> chars, v |-> value]>>]  *)
(* (a Python dict keeps insertion order, so a map is a sequence of pairs). *)
(* Python strings that the code manipulates are sequences of characters.   *)
(***************************************************************************)
EXTENDS Integers, Sequences, FiniteSets, TLC

VARIABLES
    pc,                 \* position in main(): "load", "generate", "validate", "save", "summary", "done", "exited"
    args,               \* argparse namespace: [validate, format, output]
    input_file,         \* the outputs file on disk: [state, content]
    dirs,               \* directories that exist
    files,              \* files written by this run: set of [path, format]
    fs_perm,            \* [creatable, writable]: may mkdir / open(..., 'w') succeed
    terraform_outputs,  \* what load_terraform_outputs returned
    inventory,          \* what generate_inventory returned
    valid,              \* what validate_inventory returned (when it ran)
    log,                \* logger lines so far: <<[level, msg]>>
    exit_status,        \* process exit status, -1 while running
    uncaught,           \* name of the exception that escaped main(), "" if none
    steps               \* pipeline steps begun so far, in order

vars == <<pc, args, input_file, dirs, files, fs_perm, terraform_outputs,
          inventory, valid, log, exit_status, uncaught, steps>>

----------------------------------------------------------------------------
(* Bounds of the model *)

\* longest instance_public_ips list drawn
MaxIps == 2
\* longest rds_endpoint string drawn
MaxEndpointLen == 3
\* most webserver hosts in a hand-made tree given to validate_inventory
MaxTreeHosts == 3

----------------------------------------------------------------------------
(* JSON values and the Python operations the code applies to them *)

Null == [t |-> "null"]
Num(k) == [t |-> "num", v |-> k]
Bool(b) == [t |-> "bool", v |-> b]
Str(s) == [t |-> "str", v |-> s]
List(l) == [t |-> "list", v |-> l]
Map(m) == [t |-> "map", v |-> m]

EmptyStr == Str(<< >>)
EmptyList == List(<< >>)
EmptyMap == Map(<< >>)

\* bool(x) for a JSON value, as `not x` / `x if c else y` compute it
Truthy(x) ==
    CASE x.t = "null" -> FALSE
      [] x.t = "bool" -> x.v
      [] x.t = "num"  -> x.v # 0
      [] OTHER        -> Len(x.v) > 0

\* len(x) is defined for str, list and dict only
HasLen(x) == x.t \in {"str", "list", "map"}

\* the items iterating x yields: elements, characters, or keys
Iterate(x) ==
    CASE x.t = "list" -> x.v
      [] x.t = "str"  -> [i \in 1..Len(x.v) |-> Str(<<x.v[i]>>)]
      [] x.t = "map"  -> [i \in 1..Len(x.v) |-> Str(x.v[i].k)]

\* d.get(key, default) on a JSON map
DictGet(d, key, default) ==
    IF \E i \in 1..Len(d.v) : d.v[i].k = key
    THEN d.v[CHOOSE i \in 1..Len(d.v) : d.v[i].k = key].v
    ELSE default

\* position of the first c in s, 0 when there is none
IndexOf(s, c) ==
    IF \E i \in 1..Len(s) : s[i] = c
    THEN CHOOSE i \in 1..Len(s) : s[i] = c /\ \A j \in 1..(i-1) : s[j] # c
    ELSE 0

\* s.split(c) for a one-character separator
RECURSIVE PySplit(_, _)
PySplit(s, c) ==
    LET i == IndexOf(s, c) IN
    IF i = 0 THEN <<s>>
    ELSE <<SubSeq(s, 1, i-1)>> \o PySplit(SubSeq(s, i+1, Len(s)), c)

\* s.replace(old, new): every non-overlapping occurrence, left to right
RECURSIVE PyReplace(_, _, _)
PyReplace(s, old, new) ==
    IF Len(s) < Len(old) THEN s
    ELSE IF SubSeq(s, 1, Len(old)) = old
         THEN new \o PyReplace(SubSeq(s, Len(old)+1, Len(s)), old, new)
         ELSE <<Head(s)>> \o PyReplace(Tail(s), old, new)

Min(a, b) == IF a < b THEN a ELSE b

\* list(zip(a, b, c)): stops at the shortest
Zip3(a, b, c) ==
    [i \in 1..Min(Len(a), Min(Len(b), Len(c))) |-> <<a[i], b[i], c[i]>>]

\* [x] * n
Repeat(x, n) == [i \in 1..n |-> x]

----------------------------------------------------------------------------
(* generate_inventory *)

\* string literals of generate_inventory that meet input strings
S_localhost == <<"l","o","c","a","l","h","o","s","t">>
S_appdb == <<"a","p","p","d","b">>
S_dbadmin == <<"d","b","a","d","m","i","n">>
S_myapp == <<"m","y","a","p","p">>
S_dev == <<"d","e","v">>
S_us_west_2 == <<"u","s","-","w","e","s","t","-","2">>
K_project_name == <<"p","r","o","j","e","c","t","_","n","a","m","e">>
K_environment == <<"e","n","v","i","r","o","n","m","e","n","t">>
K_region == <<"r","e","g","i","o","n">>

\* the output names generate_inventory reads
OutputKeys ==
    {"instance_public_ips", "instance_private_ips", "instance_ids", "rds_endpoint",
     "s3_bucket_name", "load_balancer_dns", "vpc_id", "rds_database_name",
     "rds_username", "environment_info"}

\* terraform_outputs.get(key, {}).get('value', default); terraform_outputs maps
\* an output name to a wrapper, a wrapper maps "value" to a JSON value
GetOutputValue(outputs, key, default) ==
    IF key \in DOMAIN outputs /\ "value" \in DOMAIN outputs[key]
    THEN outputs[key]["value"]
    ELSE default

\* env_info.get(..) needs a dict
EnvInfoRaises(env_info) == env_info.t # "map"

\* rds_endpoint.split(':') is evaluated when rds_endpoint is truthy and needs a str
RdsEndpointRaises(rds_endpoint) == Truthy(rds_endpoint) /\ rds_endpoint.t # "str"

\* mutation: the endpoint used whole, port included
DatabaseHost_Unsplit(rds_endpoint) ==
    IF Truthy(rds_endpoint) THEN Str(rds_endpoint.v) ELSE Str(S_localhost)

\* rds_endpoint.split(':')[0] if rds_endpoint else 'localhost'
DatabaseHost(rds_endpoint) ==
    IF Truthy(rds_endpoint) THEN Str(PySplit(rds_endpoint.v, ":")[1]) ELSE Str(S_localhost)

\* len(public_ips), private_ips + [..], instance_ids + [..] and zip(public_ips, ..)
\* need a sized iterable and two lists
ZipRaises(public_ips, private_ips, instance_ids) ==
    \/ ~HasLen(public_ips)
    \/ private_ips.t # "list"
    \/ instance_ids.t # "list"

\* companion + [''] * len(public_ips)
Padded(companion, public_ips) == companion.v \o Repeat(EmptyStr, Len(public_ips.v))

\* f'web-{i+1}', i counting from 0
HostName(i) == "web-" \o ToString(i + 1)

\* 'primary' if i == 0 else 'secondary'
ServerRole(i) == IF i = 0 THEN "primary" ELSE "secondary"

\* mutation: the first host taken to be the one with index 1
IsPrimary_OneBased(i) == i = 1

\* the if i == 0 / else update of host_config
IsPrimary(i) == i = 0

HostConfig(i, public_ip, private_ip, instance_id) ==
    [ansible_host |-> public_ip,
     private_ip |-> private_ip,
     instance_id |-> instance_id,
     server_role |-> ServerRole(i),
     server_index |-> i + 1,
     enable_cron_jobs |-> IsPrimary(i),
     enable_database_backups |-> IsPrimary(i),
     is_primary |-> IsPrimary(i)]

\* the for loop: one host per zip item, inserted in order under its name
WebHosts(public_ips, private_ips, instance_ids) ==
    LET z == Zip3(Iterate(public_ips),
                  Padded(private_ips, public_ips),
                  Padded(instance_ids, public_ips))
    IN [j \in 1..Len(z) |->
          [name |-> HostName(j - 1),
           config |-> HostConfig(j - 1, z[j][1], z[j][2], z[j][3])]]

\* the inventory literal, with the given webserver hosts
InventoryTree(project_name, environment, region, vpc_id, lb_dns, rds_endpoint, db_name, db_username, s3_bucket, web_hosts) ==
    [all |->
      [vars |->
        [ansible_user |-> "ubuntu",
         ansible_ssh_private_key_file |-> "~/.ssh/id_rsa",
         ansible_python_interpreter |-> "/usr/bin/python3",
         host_key_checking |-> FALSE,
         project_name |-> project_name,
         environment |-> environment,
         aws_region |-> region,
         vpc_id |-> vpc_id,
         load_balancer_dns |-> lb_dns,
         database_host |-> rds_endpoint,
         database_port |-> 5432,
         database_name |-> db_name,
         database_username |-> db_username,
         s3_bucket_name |-> s3_bucket,
         app_port |-> 3000,
         enable_ssl |-> FALSE,
         enable_monitoring |-> TRUE,
         enable_cloudwatch |-> TRUE,
         enable_firewall |-> TRUE,
         enable_fail2ban |-> TRUE],
       children |->
        [webservers |->
          [hosts |-> web_hosts,
           vars |-> [server_type |-> "web", node_env |-> "production"]],
         databases |->
          [hosts |-> <<[name |-> "postgres-main",
                        config |-> [ansible_host |-> DatabaseHost(rds_endpoint),
                                    db_engine |-> "postgres",
                                    db_port |-> 5432,
                                    is_managed |-> TRUE]]>>,
           vars |-> [database_type |-> "postgresql", backup_enabled |-> TRUE]],
         loadbalancers |->
          [hosts |-> <<[name |-> "alb-main",
                        config |-> [lb_dns_name |-> lb_dns,
                                    lb_type |-> "application",
                                    is_managed |-> TRUE]]>>,
           vars |-> [lb_health_check_path |-> "/health"]]]]]

LogLine(level, msg) == [level |-> level, msg |-> msg]

\* generate_inventory(terraform_outputs): [raised, inventory, log]; raised names
\* the exception that leaves the function ("" when it returns), log is what it
\* logged up to there
GenerateInventory(outputs) ==
    LET public_ips == GetOutputValue(outputs, "instance_public_ips", EmptyList)
        private_ips == GetOutputValue(outputs, "instance_private_ips", EmptyList)
        instance_ids == GetOutputValue(outputs, "instance_ids", EmptyList)
        rds_endpoint == GetOutputValue(outputs, "rds_endpoint", EmptyStr)
        s3_bucket == GetOutputValue(outputs, "s3_bucket_name", EmptyStr)
        lb_dns == GetOutputValue(outputs, "load_balancer_dns", EmptyStr)
        vpc_id == GetOutputValue(outputs, "vpc_id", EmptyStr)
        db_name == GetOutputValue(outputs, "rds_database_name", Str(S_appdb))
        db_username == GetOutputValue(outputs, "rds_username", Str(S_dbadmin))
        env_info == GetOutputValue(outputs, "environment_info", EmptyMap)
        log0 == <<LogLine("INFO", "Generating dynamic inventory...")>>
        log1 == IF ~Truthy(public_ips)
                THEN Append(log0, LogLine("WARNING", "No public IPs found in Terraform outputs"))
                ELSE log0
    IN  IF EnvInfoRaises(env_info)
        THEN [raised |-> "AttributeError", inventory |-> << >>, log |-> log0]
        ELSE IF RdsEndpointRaises(rds_endpoint)
        THEN [raised |-> "AttributeError", inventory |-> << >>, log |-> log1]
        ELSE IF ZipRaises(public_ips, private_ips, instance_ids)
        THEN [raised |-> "TypeError", inventory |-> << >>, log |-> log1]
        ELSE [raised |-> "",
              inventory |->
                InventoryTree(DictGet(env_info, K_project_name, Str(S_myapp)),
                              DictGet(env_info, K_environment, Str(S_dev)),
                              DictGet(env_info, K_region, Str(S_us_west_2)),
                              vpc_id, lb_dns, rds_endpoint, db_name, db_username,
                              s3_bucket,
                              WebHosts(public_ips, private_ips, instance_ids)),
              log |-> Append(log1, LogLine("INFO", "Generated inventory with N web servers"))]

----------------------------------------------------------------------------
(* validate_inventory *)

\* d.get(key, {}) on a tree node
TreeGet(d, key) == IF key \in DOMAIN d THEN d[key] ELSE << >>

\* inventory.get('all', {}).get('children', {}).get('webservers', {}).get('hosts', {})
WebserverHosts(tree) ==
    TreeGet(TreeGet(TreeGet(TreeGet(tree, "all"), "children"), "webservers"), "hosts")

\* mutation: a falsy address counted as missing (not host_config.get('ansible_host'))
MissingAddress_Falsy(host) ==
    "ansible_host" \notin DOMAIN host.config \/ ~Truthy(host.config.ansible_host)

\* 'ansible_host' not in host_config
MissingAddress(host) == "ansible_host" \notin DOMAIN host.config

\* validate_inventory(inventory): [ok, log]
ValidateInventory(tree) ==
    LET webservers == WebserverHosts(tree) IN
    IF "all" \notin DOMAIN tree
    THEN [ok |-> FALSE, log |-> <<LogLine("ERROR", "Missing required key in inventory")>>]
    ELSE IF Len(webservers) = 0
    THEN [ok |-> FALSE, log |-> <<LogLine("WARNING", "No webserver hosts found in inventory")>>]
    ELSE IF \E i \in 1..Len(webservers) : MissingAddress(webservers[i])
    THEN [ok |-> FALSE, log |-> <<LogLine("ERROR", "Host missing ansible_host")>>]
    ELSE [ok |-> TRUE, log |-> <<LogLine("INFO", "Inventory validation passed")>>]

----------------------------------------------------------------------------
(* save: the output path and the file system *)

Ext_yml == <<".","y","m","l">>
Ext_yaml == <<".","y","a","m","l">>
Ext_json == <<".","j","s","o","n">>
CurDir == <<".">>

\* args.output.replace('.yml', '.json').replace('.yaml', '.json')
JsonOutputFile(output) == PyReplace(PyReplace(output, Ext_yml, Ext_json), Ext_yaml, Ext_json)

\* positions of the path separators of p
Slashes(p) == {i \in 1..Len(p) : p[i] = "/"}

\* Path(p).parent, "." for a bare file name
Parent(p) ==
    IF Slashes(p) = {} THEN CurDir
    ELSE SubSeq(p, 1, (CHOOSE i \in Slashes(p) : \A j \in Slashes(p) : j <= i) - 1)

\* the directories mkdir(parents=True) makes sure exist: the parent and its ancestors
Ancestors(p) == {SubSeq(p, 1, i - 1) : i \in Slashes(p)} \cup {CurDir}

\* open(path, 'w') succeeds when the directory is there and writing is permitted
CanOpenForWrite(path, ds, perm) == Parent(path) \in ds /\ perm.writable

\* output_path.parent.mkdir(parents=True, exist_ok=True) succeeds
CanMkdir(path, ds, perm) == Parent(path) \in ds \/ perm.creatable

\* the exception open(path, 'w') raises when it fails
OpenError(path, ds) == IF Parent(path) \notin ds THEN "FileNotFoundError" ELSE "PermissionError"

----------------------------------------------------------------------------
(* main *)

\* sys.exit(1) after the logged lines
ExitWith(lines) ==
    /\ log' = log \o lines
    /\ exit_status' = 1
    /\ pc' = "exited"
    /\ uncaught' = ""

\* an exception nobody catches: the interpreter prints the traceback and the
\* process ends with status 1; nothing goes through the logger
Crash(exc, lines) ==
    /\ log' = log \o lines
    /\ exit_status' = 1
    /\ pc' = "exited"
    /\ uncaught' = exc

\* load_terraform_outputs(args.terraform_outputs)
Load ==
    /\ pc = "load"
    /\ steps' = Append(steps, "load")
    /\ CASE input_file.state = "ok" ->
              /\ terraform_outputs' = input_file.content
              /\ log' = Append(log, LogLine("INFO", "Loaded Terraform outputs"))
              /\ pc' = "generate"
              /\ UNCHANGED <<exit_status, uncaught>>
         [] input_file.state = "missing" ->
              /\ ExitWith(<<LogLine("ERROR", "Terraform outputs file not found")>>)
              /\ UNCHANGED terraform_outputs
         [] input_file.state = "malformed" ->
              /\ ExitWith(<<LogLine("ERROR", "Invalid JSON in outputs file")>>)
              /\ UNCHANGED terraform_outputs
         [] input_file.state = "unreadable" ->
              /\ Crash("PermissionError", << >>)
              /\ UNCHANGED terraform_outputs
    /\ UNCHANGED <<args, input_file, dirs, files, fs_perm, inventory, valid>>

\* inventory = generate_inventory(terraform_outputs)
Generate ==
    /\ pc = "generate"
    /\ steps' = Append(steps, "generate")
    /\ LET r == GenerateInventory(terraform_outputs) IN
       IF r.raised # ""
       THEN /\ Crash(r.raised, r.log)
            /\ UNCHANGED inventory
       ELSE /\ inventory' = r.inventory
            /\ log' = log \o r.log
            /\ pc' = "validate"
            /\ UNCHANGED <<exit_status, uncaught>>
    /\ UNCHANGED <<args, input_file, dirs, files, fs_perm, terraform_outputs, valid>>

\* mutation: the `not` dropped
ValidationFails_Inverted(a, ok) == a.validate /\ ok

\* args.validate and not validate_inventory(inventory)
ValidationFails(a, ok) == a.validate /\ ~ok

\* if args.validate and not validate_inventory(inventory): ... sys.exit(1)
Validate ==
    /\ pc = "validate"
    /\ IF args.validate
       THEN LET r == ValidateInventory(inventory) IN
            /\ steps' = Append(steps, "validate")
            /\ valid' = r.ok
            /\ IF ValidationFails(args, r.ok)
               THEN ExitWith(Append(r.log, LogLine("ERROR", "Inventory validation failed")))
               ELSE /\ log' = log \o r.log
                    /\ pc' = "save"
                    /\ UNCHANGED <<exit_status, uncaught>>
       ELSE /\ pc' = "save"
            /\ UNCHANGED <<steps, valid, log, exit_status, uncaught>>
    /\ UNCHANGED <<args, input_file, dirs, files, fs_perm, terraform_outputs, inventory>>

\* the json branch of main: open(output_file, 'w') and json.dump, no try
SaveJson ==
    /\ pc = "save"
    /\ args.format = "json"
    /\ steps' = Append(steps, "save")
    /\ LET output_file == JsonOutputFile(args.output) IN
       IF CanOpenForWrite(output_file, dirs, fs_perm)
       THEN /\ files' = files \cup {[path |-> output_file, format |-> "json"]}
            /\ log' = Append(log, LogLine("INFO", "Inventory saved as JSON"))
            /\ pc' = "summary"
            /\ UNCHANGED <<exit_status, uncaught>>
       ELSE /\ Crash(OpenError(output_file, dirs), << >>)
            /\ UNCHANGED files
    /\ UNCHANGED <<args, input_file, dirs, fs_perm, terraform_outputs, inventory, valid>>

\* save_inventory(inventory, args.output): mkdir, open, yaml.dump inside try/except
SaveYaml ==
    /\ pc = "save"
    /\ args.format = "yaml"
    /\ steps' = Append(steps, "save")
    /\ IF ~CanMkdir(args.output, dirs, fs_perm)
       THEN /\ ExitWith(<<LogLine("ERROR", "Failed to save inventory")>>)
            /\ UNCHANGED <<dirs, files>>
       ELSE /\ dirs' = dirs \cup Ancestors(args.output)
            /\ IF CanOpenForWrite(args.output, dirs', fs_perm)
               THEN /\ files' = files \cup {[path |-> args.output, format |-> "yaml"]}
                    /\ log' = Append(log, LogLine("INFO", "Inventory saved"))
                    /\ pc' = "summary"
                    /\ UNCHANGED <<exit_status, uncaught>>
               ELSE /\ ExitWith(<<LogLine("ERROR", "Failed to save inventory")>>)
                    /\ UNCHANGED files
    /\ UNCHANGED <<args, input_file, fs_perm, terraform_outputs, inventory, valid>>

\* the summary prints, then main returns: exit status 0
Summary ==
    /\ pc = "summary"
    /\ pc' = "done"
    /\ exit_status' = 0
    /\ UNCHANGED <<args, input_file, dirs, files, fs_perm, terraform_outputs,
                   inventory, valid, log, uncaught, steps>>

----------------------------------------------------------------------------
(* Inputs *)

Absent == [present |-> FALSE]
Present(v) == [present |-> TRUE, wrapper |-> [value |-> v]]
\* a wrapper without a `value` field
PresentNoValue == [present |-> TRUE, wrapper |-> << >>]

\* the outputs document with the given choice for every output name
MkOutputs(opts) ==
    [k \in {k \in OutputKeys : opts[k].present} |-> opts[k].wrapper]

\* the i-th element of a drawn list: a letter for the list and the index
Item(c, i) == Str(<<c, ToString(i)>>)
Ip(i) == Item("i", i)
PrivIp(i) == Item("p", i)

\* the lists <<c1>>, <<c1, c2>>, ... of at most n distinct strings
ListsUpTo(c, n) == {List([i \in 1..k |-> Item(c, i)]) : k \in 0..n}

StringsUpTo(alphabet, n) == UNION {[1..k -> alphabet] : k \in 0..n}

PublicIpsOpts ==
    {Absent, PresentNoValue, Present(Null), Present(Num(7)), Present(Str(<<"a","b">>)),
     Present(EmptyMap)} \cup {Present(l) : l \in ListsUpTo("i", MaxIps)}

PrivateIpsOpts ==
    {Absent, Present(Null)} \cup {Present(l) : l \in ListsUpTo("p", MaxIps + 1)}

InstanceIdsOpts ==
    {Absent, Present(Str(<<"n">>))} \cup {Present(l) : l \in ListsUpTo("n", MaxIps + 1)}

RdsEndpointOpts ==
    {Absent, PresentNoValue, Present(Null), Present(Num(0)), Present(Num(5432)),
     Present(List(<<Str(<<"d">>)>>))}
    \cup {Present(Str(s)) : s \in StringsUpTo({"d", ":"}, MaxEndpointLen)}

EnvPair(k, c) == [k |-> k, v |-> Str(<<c>>)]

EnvironmentInfoOpts ==
    {Absent, Present(Null), Present(Str(<<"e">>)),
     Present(Map(<<EnvPair(K_project_name, "P")>>)),
     Present(Map(<<EnvPair(K_environment, "E"), EnvPair(K_region, "R")>>))}

PlainKeys == {"s3_bucket_name", "load_balancer_dns", "vpc_id", "rds_database_name", "rds_username"}

\* which of the pass-through outputs are present: none, all, or two of them
PlainPresentOpts == {{}, PlainKeys, {"vpc_id", "rds_database_name"}}

PlainValue(k) ==
    CASE k = "s3_bucket_name" -> Str(<<"s">>)
      [] k = "load_balancer_dns" -> Str(<<"l">>)
      [] k = "vpc_id" -> Str(<<"v">>)
      [] k = "rds_database_name" -> Str(<<"b">>)
      [] k = "rds_username" -> Str(<<"u">>)

Outputs(pub, priv, ids, rds, env, plain) ==
    MkOutputs([k \in OutputKeys |->
        CASE k = "instance_public_ips" -> pub
          [] k = "instance_private_ips" -> priv
          [] k = "instance_ids" -> ids
          [] k = "rds_endpoint" -> rds
          [] k = "environment_info" -> env
          [] OTHER -> IF k \in plain THEN Present(PlainValue(k)) ELSE Absent])

BuildInputs ==
    {Outputs(pub, priv, ids, rds, env, plain) :
        pub \in PublicIpsOpts, priv \in PrivateIpsOpts, ids \in InstanceIdsOpts,
        rds \in RdsEndpointOpts, env \in EnvironmentInfoOpts, plain \in PlainPresentOpts}

DefaultOutput == <<"a","/","i","/","h">> \o Ext_yml

InitBuild ==
    /\ terraform_outputs \in BuildInputs
    /\ pc = "generate"
    /\ args = [validate |-> TRUE, format |-> "yaml", output |-> DefaultOutput]
    /\ input_file = [state |-> "ok", content |-> terraform_outputs]
    /\ dirs = {CurDir}
    /\ files = {}
    /\ fs_perm = [creatable |-> TRUE, writable |-> TRUE]
    /\ inventory = << >>
    /\ valid = FALSE
    /\ log = << >>
    /\ exit_status = -1
    /\ uncaught = ""
    /\ steps = <<"load">>

NextBuild == Generate \/ Validate

SpecBuild == InitBuild /\ [][NextBuild]_vars

----------------------------------------------------------------------------
(* validate_inventory on arbitrary trees *)

\* a webserver host record: complete, without ansible_host, or with a null one
HostKinds == {"addressed", "unaddressed", "null_address"}

TreeHost(i, kind) ==
    [name |-> HostName(i - 1),
     config |->
        CASE kind = "addressed" -> HostConfig(i - 1, Ip(i), EmptyStr, EmptyStr)
          [] kind = "unaddressed" -> [private_ip |-> PrivIp(i), server_index |-> i]
          [] kind = "null_address" -> [ansible_host |-> Null, server_index |-> i]]

HostSeqs ==
    UNION {{[i \in 1..n |-> TreeHost(i, kinds[i])] : kinds \in [1..n -> HostKinds]} :
           n \in 0..MaxTreeHosts}

WebGroup(hs) == [hosts |-> hs, vars |-> [server_type |-> "web"]]

Trees ==
    {<< >>,
     [children |-> [webservers |-> WebGroup(<<TreeHost(1, "addressed")>>)]],
     [all |-> [vars |-> [app_port |-> 3000]]],
     [all |-> [children |-> [databases |-> [hosts |-> << >>]]]],
     [all |-> [children |-> [webservers |-> [vars |-> [server_type |-> "web"]]]]]}
    \cup {[all |-> [children |-> [webservers |-> WebGroup(hs)]]] : hs \in HostSeqs}
    \cup {[all |-> [vars |-> [app_port |-> 3000],
                    children |-> [webservers |-> WebGroup(hs),
                                  databases |-> [hosts |-> << >>]]]] : hs \in HostSeqs}

InitValidate ==
    /\ inventory \in Trees
    /\ pc = "validate"
    /\ args = [validate |-> TRUE, format |-> "yaml", output |-> DefaultOutput]
    /\ terraform_outputs = << >>
    /\ input_file = [state |-> "ok", content |-> << >>]
    /\ dirs = {CurDir}
    /\ files = {}
    /\ fs_perm = [creatable |-> TRUE, writable |-> TRUE]
    /\ valid = FALSE
    /\ log = << >>
    /\ exit_status = -1
    /\ uncaught = ""
    /\ steps = <<"load", "generate">>

NextValidate == Validate

SpecValidate == InitValidate /\ [][NextValidate]_vars

----------------------------------------------------------------------------
(* The whole run of main *)

OutputPaths ==
    {DefaultOutput,
     <<"o">> \o Ext_yml,
     <<"o">> \o Ext_yaml,
     <<"o">>,
     <<"d", "/", "o">> \o Ext_yaml,
     <<"d", "/", "o">> \o Ext_json,
     <<"d">> \o Ext_yml \o <<"/", "o">> \o Ext_yml,
     <<"d">> \o Ext_yaml \o <<"/", "o">>,
     <<"o">> \o Ext_yml \o <<".", "b">>}

\* every directory some drawn path, or its json counterpart, lies in
AllDirs ==
    {CurDir, <<"a">>, <<"a", "/", "i">>, <<"d">>, <<"d">> \o Ext_yml,
     <<"d">> \o Ext_yaml, <<"d">> \o Ext_json}

MainInputs ==
    {Outputs(pub, Absent, Absent, Absent, env, {}) :
        pub \in {Absent, Present(Null)} \cup {Present(l) : l \in ListsUpTo("i", MaxIps)},
        env \in {Absent, Present(Null)}}

Init ==
    /\ pc = "load"
    /\ args \in [validate : BOOLEAN, format : {"yaml", "json"}, output : OutputPaths]
    /\ input_file \in [state : {"ok", "missing", "malformed", "unreadable"},
                       content : MainInputs]
    /\ dirs \in {{CurDir}, Ancestors(args.output), AllDirs}
    /\ files = {}
    /\ fs_perm \in [creatable : BOOLEAN, writable : BOOLEAN]
    /\ terraform_outputs = << >>
    /\ inventory = << >>
    /\ valid = FALSE
    /\ log = << >>
    /\ exit_status = -1
    /\ uncaught = ""
    /\ steps = << >>

Next == Load \/ Generate \/ Validate \/ SaveJson \/ SaveYaml \/ Summary

Spec == Init /\ [][Next]_vars

----------------------------------------------------------------------------
(* Properties *)

StepRan(name) == \E i \in 1..Len(steps) : steps[i] = name
GenerateRan == StepRan("generate")
\* generate_inventory was left by an exception
GenerateRaised == steps # << >> /\ steps[Len(steps)] = "generate" /\ uncaught # ""
GenerateReturned == GenerateRan /\ ~GenerateRaised
ValidateRan == StepRan("validate")
SaveRan == StepRan("save")

HasValue(k) == k \in DOMAIN terraform_outputs /\ "value" \in DOMAIN terraform_outputs[k]
ValueOf(k) == terraform_outputs[k]["value"]
IsListOutput(k) == HasValue(k) /\ ValueOf(k).t = "list"

BuiltWebHosts == inventory.all.children.webservers.hosts

\* the hosts are exactly web-1..web-n for the n public IPs, zipped by index
\* with the companions and padded with the empty string
HostsFollowPublicIps ==
    LET pub == ValueOf("instance_public_ips").v
        priv == ValueOf("instance_private_ips").v
        ids == ValueOf("instance_ids").v
        hosts == BuiltWebHosts
    IN /\ Len(hosts) = Len(pub)
       /\ \A i \in 1..Len(pub) :
            /\ hosts[i].name = "web-" \o ToString(i)
            /\ hosts[i].config.ansible_host = pub[i]
            /\ hosts[i].config.private_ip = (IF i <= Len(priv) THEN priv[i] ELSE EmptyStr)
            /\ hosts[i].config.instance_id = (IF i <= Len(ids) THEN ids[i] ELSE EmptyStr)

ThreeLists ==
    /\ IsListOutput("instance_public_ips")
    /\ IsListOutput("instance_private_ips")
    /\ IsListOutput("instance_ids")

\* C1: for every outputs map whose three instance lists are lists,
\* generate_inventory produces exactly the hosts web-1..web-n, one per public
\* IP in order, with the companions taken by index and padded with ''.
C1_HostsForEveryListInput ==
    (GenerateRan /\ ThreeLists) => (~GenerateRaised /\ HostsFollowPublicIps)

\* The loop itself: whenever generate_inventory returns on three lists, the
\* hosts are as C1 says.
WebHostLoopIsRight ==
    (GenerateReturned /\ ThreeLists) => HostsFollowPublicIps

\* C2: in every returned tree with at least one web host exactly one host is
\* primary, it is web-1 and has both primary-only flags and role "primary";
\* every other host has the three flags false and role "secondary".
C2_OnePrimaryAndItIsFirst ==
    GenerateReturned =>
        LET hosts == BuiltWebHosts IN
        Len(hosts) >= 1 =>
            /\ Cardinality({i \in 1..Len(hosts) : hosts[i].config.is_primary}) = 1
            /\ hosts[1].name = "web-1"
            /\ hosts[1].config.is_primary
            /\ hosts[1].config.enable_cron_jobs
            /\ hosts[1].config.enable_database_backups
            /\ hosts[1].config.server_role = "primary"
            /\ \A i \in 2..Len(hosts) :
                 /\ ~hosts[i].config.is_primary
                 /\ ~hosts[i].config.enable_cron_jobs
                 /\ ~hosts[i].config.enable_database_backups
                 /\ hosts[i].config.server_role = "secondary"

C2_Witness ==
    /\ GenerateReturned
    /\ Len(BuiltWebHosts) = 2
    /\ BuiltWebHosts[2].name = "web-2"
    /\ BuiltWebHosts[2].config.server_role = "secondary"

\* the rds_endpoint the builder sees: the value, or '' when there is none
RdsEndpointSeen == IF HasValue("rds_endpoint") THEN ValueOf("rds_endpoint") ELSE EmptyStr
Colons(s) == {i \in 1..Len(s) : s[i] = ":"}
\* the part of s before its first ':' (all of s when it has none)
BeforeFirstColon(s) ==
    IF Colons(s) = {} THEN s
    ELSE SubSeq(s, 1, (CHOOSE i \in Colons(s) : \A j \in Colons(s) : i <= j) - 1)
DatabaseAddress == inventory.all.children.databases.hosts[1].config.ansible_host

\* C3 as stated: the database address is the part of rds_endpoint before its
\* first ':' when rds_endpoint is a non-empty string containing ':', and
\* "localhost" otherwise, also for a non-empty rds_endpoint without ':'.
C3_LocalhostUnlessPortSuffix ==
    (GenerateReturned /\ RdsEndpointSeen.t = "str") =>
        DatabaseAddress =
            (IF RdsEndpointSeen.v # << >> /\ Colons(RdsEndpointSeen.v) # {}
             THEN Str(BeforeFirstColon(RdsEndpointSeen.v))
             ELSE Str(S_localhost))

\* C3 amended: in every returned tree the database address is the part of
\* rds_endpoint before its first ':' when rds_endpoint is a non-empty string
\* (the whole string when it has no ':'), and "localhost" when rds_endpoint is
\* the empty string or absent.
C3_HostPartOrLocalhost ==
    (GenerateReturned /\ RdsEndpointSeen.t = "str") =>
        DatabaseAddress =
            (IF RdsEndpointSeen.v # << >>
             THEN Str(BeforeFirstColon(RdsEndpointSeen.v))
             ELSE Str(S_localhost))

C3_Witness ==
    /\ GenerateReturned
    /\ HasValue("rds_endpoint")
    /\ RdsEndpointSeen = Str(<<"d", "d">>)
    /\ DatabaseAddress = Str(<<"d", "d">>)

PlainDefault(k) ==
    CASE k = "rds_database_name" -> Str(S_appdb)
      [] k = "rds_username" -> Str(S_dbadmin)
      [] OTHER -> EmptyStr
PlainVar(k) ==
    CASE k = "s3_bucket_name" -> inventory.all.vars.s3_bucket_name
      [] k = "load_balancer_dns" -> inventory.all.vars.load_balancer_dns
      [] k = "vpc_id" -> inventory.all.vars.vpc_id
      [] k = "rds_database_name" -> inventory.all.vars.database_name
      [] k = "rds_username" -> inventory.all.vars.database_username

\* every missing output shows up in the tree as its fixed default
DefaultsSubstituted ==
    /\ \A k \in PlainKeys : ~HasValue(k) => PlainVar(k) = PlainDefault(k)
    /\ ~HasValue("rds_endpoint") => inventory.all.vars.database_host = EmptyStr
    /\ ~HasValue("instance_public_ips") => BuiltWebHosts = << >>
    /\ ~HasValue("environment_info") =>
          /\ inventory.all.vars.project_name = Str(S_myapp)
          /\ inventory.all.vars.environment = Str(S_dev)
          /\ inventory.all.vars.aws_region = Str(S_us_west_2)

\* C4: generate_inventory is total: for every outputs map, whatever JSON type
\* each value has, it returns a tree and never raises; a missing output is
\* replaced by its fixed default.
C4_BuilderIsTotal ==
    GenerateRan => (~GenerateRaised /\ DefaultsSubstituted)

\* Whenever the builder returns, the defaults are in place.
DefaultsWhenReturned ==
    GenerateReturned => DefaultsSubstituted

\* the three checks of validate_inventory, read off the tree
RootExists == "all" \in DOMAIN inventory
TreeWebHosts ==
    IF /\ RootExists
       /\ "children" \in DOMAIN inventory.all
       /\ "webservers" \in DOMAIN inventory.all.children
       /\ "hosts" \in DOMAIN inventory.all.children.webservers
    THEN inventory.all.children.webservers.hosts
    ELSE << >>
SomeWebHost == Len(TreeWebHosts) > 0
EveryWebHostAddressed ==
    \A i \in 1..Len(TreeWebHosts) : "ansible_host" \in DOMAIN TreeWebHosts[i].config

ValidatorMessages ==
    {"Missing required key in inventory", "No webserver hosts found in inventory",
     "Host missing ansible_host", "Inventory validation passed"}
IsValidatorLine(l) == l.msg \in ValidatorMessages
ValidatorLines == SelectSeq(log, IsValidatorLine)
IsComplaint(l) == l.level \in {"ERROR", "WARNING"}

\* C5: validate_inventory returns true iff the root exists, there is a
\* webserver host and every webserver host has an ansible_host key; the checks
\* run in that order and the first failing one logs its single error or
\* warning line.
C5_ValidatorVerdict ==
    ValidateRan =>
        /\ valid = (RootExists /\ SomeWebHost /\ EveryWebHostAddressed)
        /\ Len(ValidatorLines) = 1
        /\ ValidatorLines[1] =
             (IF ~RootExists
              THEN LogLine("ERROR", "Missing required key in inventory")
              ELSE IF ~SomeWebHost
              THEN LogLine("WARNING", "No webserver hosts found in inventory")
              ELSE IF ~EveryWebHostAddressed
              THEN LogLine("ERROR", "Host missing ansible_host")
              ELSE LogLine("INFO", "Inventory validation passed"))
        /\ ~valid <=> IsComplaint(ValidatorLines[1])

C5_Witness ==
    /\ ValidateRan
    /\ ~valid
    /\ Len(TreeWebHosts) = 3
    /\ "ansible_host" \in DOMAIN TreeWebHosts[1].config
    /\ "ansible_host" \notin DOMAIN TreeWebHosts[3].config
    /\ ValidatorLines = <<LogLine("ERROR", "Host missing ansible_host")>>

PublicIpsEmptyOrAbsent ==
    \/ ~HasValue("instance_public_ips")
    \/ /\ HasLen(ValueOf("instance_public_ips"))
       /\ Len(ValueOf("instance_public_ips").v) = 0

\* the tree with no web host and the two fixed groups
SparseTree ==
    /\ DOMAIN inventory = {"all"}
    /\ DOMAIN inventory.all = {"vars", "children"}
    /\ BuiltWebHosts = << >>
    /\ Len(inventory.all.children.databases.hosts) = 1
    /\ inventory.all.children.databases.hosts[1].name = "postgres-main"
    /\ Len(inventory.all.children.loadbalancers.hosts) = 1
    /\ inventory.all.children.loadbalancers.hosts[1].name = "alb-main"

\* C6: when public_ips is empty or absent generate_inventory still returns a
\* well-formed tree with zero web hosts and the two fixed groups, and
\* validate_inventory on that tree returns false and logs an error.
C6_EmptyBuildsButDoesNotValidate ==
    (GenerateRan /\ PublicIpsEmptyOrAbsent) =>
        /\ ~GenerateRaised
        /\ SparseTree
        /\ ValidateRan =>
             /\ ~valid
             /\ \E i \in 1..Len(ValidatorLines) : ValidatorLines[i].level = "ERROR"

\* What the code does there: whenever the builder returns on an empty or
\* absent public_ips the tree is sparse, and the validator rejects it with
\* a warning line.
SparseTreeWhenReturned ==
    (GenerateReturned /\ PublicIpsEmptyOrAbsent) =>
        /\ SparseTree
        /\ ValidateRan =>
             /\ ~valid
             /\ ValidatorLines = <<LogLine("WARNING", "No webserver hosts found in inventory")>>

Ended == pc \in {"done", "exited"}
LoadFailure == StepRan("load") /\ input_file.state \in {"missing", "malformed"}
WriteFailure == SaveRan /\ pc = "exited"
ValidationFailure == args.validate /\ ValidateRan /\ ~valid
ErrorLogged == \E i \in 1..Len(log) : log[i].level = "ERROR"

\* C7: a run ends with status 0 after the inventory was written, or with
\* status 1 after a logged error; status 1 occurs exactly on a load failure, a
\* write failure (either format) or a failed validation under --validate.
C7_ExitStatus ==
    Ended =>
        /\ \/ exit_status = 0 /\ files # {}
           \/ exit_status = 1 /\ ErrorLogged
        /\ exit_status = 1 <=> (LoadFailure \/ WriteFailure \/ ValidationFailure)
        /\ (GenerateReturned /\ ~args.validate /\ ~WriteFailure) => exit_status = 0

\* C8: in both formats the save creates the missing parent directories, so a
\* run that may create directories and write files does write the inventory.
C8_ParentDirectoriesCreated ==
    (SaveRan /\ fs_perm.creatable /\ fs_perm.writable) => (pc # "exited" /\ files # {})

EndsWith(s, suffix) ==
    Len(s) >= Len(suffix) /\ SubSeq(s, Len(s) - Len(suffix) + 1, Len(s)) = suffix
WithoutSuffix(s, suffix) == SubSeq(s, 1, Len(s) - Len(suffix))
\* the path with only a trailing .yml or .yaml turned into .json
SuffixToJson(path) ==
    IF EndsWith(path, Ext_yml) THEN WithoutSuffix(path, Ext_yml) \o Ext_json
    ELSE IF EndsWith(path, Ext_yaml) THEN WithoutSuffix(path, Ext_yaml) \o Ext_json
    ELSE path

\* C9: in json format the path written is --output with only its trailing
\* .yml or .yaml replaced by .json, everything else unchanged.
C9_OnlyTheSuffixIsReplaced ==
    \A f \in files : f.format = "json" => f.path = SuffixToJson(args.output)

IsPrefix(s, t) == Len(s) <= Len(t) /\ \A i \in 1..Len(s) : s[i] = t[i]
PipelineOrder ==
    IF args.validate THEN <<"load", "generate", "validate", "save">>
    ELSE <<"load", "generate", "save">>

\* C10: the steps happen only in the order load, generate, validate (only
\* under --validate), save, each at most once; after a failed validation the
\* run ends without the save step and without any file written, and after a
\* load failure no later step happens.
C10_StepsInOrder ==
    /\ IsPrefix(steps, PipelineOrder)
    /\ (ValidateRan /\ ~valid) => (pc = "exited" /\ ~SaveRan /\ files = {})
    /\ (StepRan("load") /\ input_file.state # "ok") => (steps = <<"load">> /\ files = {})

C10_Witness ==
    /\ ValidateRan
    /\ ~valid
    /\ pc = "exited"
    /\ args.format = "yaml"
    /\ fs_perm.creatable
    /\ fs_perm.writable

====
